---- MODULE Spec2Model ----
(***************************************************************************)
(* Claim intake of app.py: the /submit-claim handler (submit_claim) and    *)
(* the policy validator (validate_claim), with the external stores they    *)
(* write to: the blob container, the SQL Documents table, the Cosmos       *)
(* container and the Logic App webhook.  Every request is a thread of the  *)
(* Flask server; a step of a request is one external call together with    *)
(* the local code that follows it up to the next external call.            *)
(***************************************************************************)
EXTENDS Integers, Sequences, FiniteSets, TLC

\* ---------------------------------------------------------------- bounds
\* number of file parts in one submission
MaxFiles == 2
\* number of external calls that fail in one run
MaxFaults == 3

\* the request threads of the server
Requests == {1, 2}

\* ------------------------------------------------------------ file names
\* A file name is a sequence of characters.  The names clients submit: the
\* empty name of an empty file input, a plain name, a path that sanitizes to
\* the name "a", and a path that sanitizes to the empty name.
FileNames ==
  { <<>>, <<"b">>, <<".", ".", "/", "a">>, <<".", ".">> }

\* characters kept by werkzeug's _filename_ascii_strip_re
SafeChars == {"a", "b", ".", "_", "-"}

\* filename.replace(os.sep, " ")
ReplaceSep(s) == [i \in 1..Len(s) |-> IF s[i] = "/" THEN " " ELSE s[i]]

\* filename.split(): the words between runs of white space
RECURSIVE Split(_, _, _)
Split(s, cur, words) ==
  IF s = <<>> THEN (IF cur = <<>> THEN words ELSE Append(words, cur))
  ELSE IF Head(s) = " "
       THEN Split(Tail(s), <<>>, IF cur = <<>> THEN words ELSE Append(words, cur))
       ELSE Split(Tail(s), Append(cur, Head(s)), words)

\* "_".join(words)
RECURSIVE Join(_)
Join(words) ==
  IF words = <<>> THEN <<>>
  ELSE IF Len(words) = 1 THEN words[1]
  ELSE words[1] \o <<"_">> \o Join(Tail(words))

\* _filename_ascii_strip_re.sub("", s)
AsciiStrip(s) == SelectSeq(s, LAMBDA c : c \in SafeChars)

\* s.strip("._")
RECURSIVE LStrip(_)
LStrip(s) ==
  IF s # <<>> /\ Head(s) \in {".", "_"} THEN LStrip(Tail(s)) ELSE s

RECURSIVE RStrip(_)
RStrip(s) ==
  IF s # <<>> /\ s[Len(s)] \in {".", "_"}
  THEN RStrip(SubSeq(s, 1, Len(s) - 1)) ELSE s

\* werkzeug.utils.secure_filename, as called on every file name
secure_filename(s) ==
  RStrip(LStrip(AsciiStrip(Join(Split(ReplaceSep(s), <<>>, <<>>)))))

\* the storage name of every name a client can submit
Sanitized == [s \in FileNames |-> secure_filename(s)]

\* ------------------------------------------------------- the policy store
\* Rows of the Customers and Policies tables read by validate_claim.
Customers ==
  { [CustomerID |-> 1, Name |-> "Jane Doe", Email |-> "jane@x.com"],
    [CustomerID |-> 2, Name |-> "Bob Roe", Email |-> "bob@x.com"] }

Policies ==
  { [PolicyID |-> 11, CustomerID |-> 1, Status |-> "Active"],
    [PolicyID |-> 12, CustomerID |-> 2, Status |-> "Lapsed"] }

\* The (name, email) pairs a client submits.
Claimants ==
  { [name |-> "JANE DOE", email |-> "Jane@X.com"],
    [name |-> "Bob Roe", email |-> "bob@x.com"],
    [name |-> "Unknown", email |-> "nobody@x.com"] }

\* SQL LOWER() on the strings that occur
Lower(s) ==
  CASE s \in {"JANE DOE", "Jane Doe"} -> "jane doe"
    [] s \in {"Jane@X.com", "jane@x.com"} -> "jane@x.com"
    [] s = "Bob Roe" -> "bob roe"
    [] s = "Unknown" -> "unknown"
    [] OTHER -> s

\* The rows selected by the query of validate_claim.
PolicyQuery(name, email) ==
  LET joined == { cp \in Customers \X Policies :
                    /\ cp[1].CustomerID = cp[2].CustomerID
                    /\ Lower(cp[1].Name) = Lower(name)
                    /\ Lower(cp[1].Email) = Lower(email)
                    /\ cp[2].Status = "Active" }
  IN  { <<cp[1].CustomerID, cp[2].PolicyID>> : cp \in joined }

Invalid == [isValid |-> FALSE, customerId |-> 0, policyId |-> 0]
\* what the call at line 102 yields when validate_claim lets an exception out
Raised == [isValid |-> FALSE, customerId |-> -1, policyId |-> -1]

\* The external calls that sit in a try/except of their own (lines 70-82,
\* 127-132, 135-145, 147-155, 170-183, 202-206).
TryBlocks ==
  {"policy_lookup", "describe_image", "analyze_document", "insert_document",
   "summarize", "webhook_post"}

\* ---- variants of caught, each with one try/except added or missing
\* no try/except around describe_image
caught_NoCaptionTry(op) == op \in TryBlocks \ {"describe_image"}
\* a try/except around upload_blob
caught_UploadTry(op) == op \in TryBlocks \cup {"upload_blob", "get_blob_client"}
\* a try/except around upsert_item
caught_UpsertTry(op) == op \in TryBlocks \cup {"upsert_item"}
\* no try/except around requests.post
caught_NoWebhookTry(op) == op \in TryBlocks \ {"webhook_post"}
\* no try/except in validate_claim
caught_NoLookupTry(op) == op \in TryBlocks \ {"policy_lookup"}

\* Whether an exception of the call is handled where it is raised.  An
\* exception of any other call reaches the except clause of submit_claim
\* (lines 210-213).
caught(op) == op \in TryBlocks

\* validate_claim(name, email).  conn: sql_conn was bound at start-up;
\* queryOk: cursor()/execute()/fetchone() do not raise; row: what fetchone()
\* returns, <<>> for None.
validate_claim(name, email, conn, queryOk, row) ==
  IF ~conn \/ ~queryOk
  THEN (IF caught("policy_lookup") THEN Invalid ELSE Raised)
  ELSE IF row # <<>>
       THEN [isValid |-> TRUE, customerId |-> row[1], policyId |-> row[2]]
       ELSE Invalid

\* what fetchone() can return for the query
FetchOne(name, email) ==
  IF PolicyQuery(name, email) = {} THEN {<<>>} ELSE PolicyQuery(name, email)

\* ------------------------------------------------------------- the state
VARIABLES
  req,        \* per request: the locals of submit_claim and its position
  blobs,      \* the blob container: storage key -> content
  Documents,  \* the rows of the SQL table Documents, in insertion order
  cosmos,     \* the Cosmos container: item id -> item
  posted,     \* the JSON bodies received by the Logic App webhook
  sql_conn,   \* whether pyodbc.connect succeeded at start-up
  clients,    \* the requests that are sent to the server in this run
  next_uuid,  \* the next value of uuid.uuid4()
  faults      \* the external calls that have failed so far

vars ==
  <<req, blobs, Documents, cosmos, posted, sql_conn, clients, next_uuid,
    faults>>

stores == <<blobs, Documents, cosmos, posted>>
config == <<sql_conn, clients>>

\* variant: an entry that exists is kept
Put_KeepExisting(m, k, v) ==
  IF k \in DOMAIN m THEN m
  ELSE [x \in DOMAIN m \cup {k} |-> IF x = k THEN v ELSE m[x]]

\* a finite map with one entry added or replaced
Put(m, k, v) == [x \in DOMAIN m \cup {k} |-> IF x = k THEN v ELSE m[x]]

SeqsUpTo(S, n) == UNION { [1..k -> S] : k \in 0..n }

NoContent == [req |-> 0, field |-> "", part |-> 0]
NoUrl == [blob |-> <<>>, sas |-> ""]
NoCaption == [text |-> "No caption detected", of |-> NoContent]
NoSummary == [text |-> "", of |-> ""]
NoClaim ==
  [id |-> 0, name |-> "", email |-> "", customerId |-> 0, policyId |-> 0,
   description |-> "", gptSummary |-> NoSummary, documents |-> <<>>,
   status |-> ""]
NoResponse == [status |-> 0, message |-> "", claim_id |-> 0]

\* the accidentDescription every client submits
Description == "rear-ended at a red light"

\* a request that has not arrived yet
IdleRequest ==
  [pc |-> "Idle", name |-> "", email |-> "", description |-> "",
   files |-> <<>>, validation |-> Invalid, claim_id |-> 0,
   document_details |-> <<>>, i |-> 0, filename |-> <<>>,
   blob_url_with_sas |-> NoUrl, caption |-> NoCaption, form_data |-> <<>>,
   gpt_summary |-> NoSummary, claim_data |-> NoClaim,
   response |-> NoResponse, trace |-> <<>>]

\* The state after start-up: the stores are empty, sql_conn is bound or not
\* (lines 63-67), and no request has arrived.  One client sends a request,
\* which is followed from its arrival to its response.
Init ==
  /\ req = [r \in Requests |-> IdleRequest]
  /\ blobs = <<>>
  /\ Documents = <<>>
  /\ cosmos = <<>>
  /\ posted = <<>>
  /\ sql_conn \in BOOLEAN
  /\ clients = {1}
  /\ next_uuid = 1
  /\ faults = 0

\* one more event in the record of what request r did
Event(r, op, res) == Append(req[r].trace, [op |-> op, i |-> req[r].i, res |-> res])

\* the responses of submit_claim
NoFilesResponse == [status |-> 400, message |-> "No files uploaded.", claim_id |-> 0]
InvalidPolicyResponse ==
  [status |-> 400, message |-> "User does not have a valid policy.", claim_id |-> 0]
ServerErrorResponse ==
  [status |-> 500, message |-> "Internal Server Error", claim_id |-> 0]
SuccessResponse(id) ==
  [status |-> 200, message |-> "Claim submitted successfully.", claim_id |-> id]

\* the parts of one form field, as request.files.getlist(field) returns them
GetList(field, names) ==
  [k \in 1..Len(names) |-> [filename |-> names[k], field |-> field, part |-> k]]

\* variant: the two lists concatenated the other way round
files_of_DocsFirst(carPhotos, supportingDocuments) ==
  GetList("supportingDocuments", supportingDocuments) \o GetList("carPhotos", carPhotos)

\* line 97: the file list the handler works on
files_of(carPhotos, supportingDocuments) ==
  GetList("carPhotos", carPhotos) \o GetList("supportingDocuments", supportingDocuments)

\* lines 92-97: a request arrives and its form is read
Receive(r) ==
  /\ req[r].pc = "Idle"
  /\ r \in clients
  /\ \E c \in Claimants :
     \E carPhotos \in SeqsUpTo(FileNames, MaxFiles) :
     \E supportingDocuments \in SeqsUpTo(FileNames, MaxFiles - Len(carPhotos)) :
       req' = [req EXCEPT ![r] =
                 [@ EXCEPT !.pc = "Received", !.name = c.name, !.email = c.email,
                           !.description = Description,
                           !.files = files_of(carPhotos, supportingDocuments)]]
  /\ UNCHANGED <<stores, config, next_uuid, faults>>

\* variant: only `not files` is tested
no_files_OnlyEmptyList(files) == files = <<>>

\* line 99: not files or all(f.filename == "" for f in files)
no_files(files) ==
  files = <<>> \/ \A k \in 1..Len(files) : files[k].filename = <<>>

\* lines 210-213: an exception reaches the handler's except clause
Fail500(r, op, res) ==
  req' = [req EXCEPT ![r] =
            [@ EXCEPT !.pc = "Done", !.response = ServerErrorResponse,
                      !.trace = Event(r, op, res)]]

\* lines 99-100
CheckFiles(r) ==
  /\ req[r].pc = "Received"
  /\ IF no_files(req[r].files)
     THEN req' = [req EXCEPT ![r] =
                    [@ EXCEPT !.pc = "Done", !.response = NoFilesResponse]]
     ELSE req' = [req EXCEPT ![r] = [@ EXCEPT !.pc = "Validating"]]
  /\ UNCHANGED <<stores, config, next_uuid, faults>>

\* variant: the validation result is not looked at
policy_rejected_Never(validation) == FALSE

\* line 103: not validation["isValid"]
policy_rejected(validation) == ~validation.isValid

\* lines 102-109, with validate_claim (lines 69-83)
Validate(r) ==
  /\ req[r].pc = "Validating"
  /\ \E queryOk \in BOOLEAN :
     \E row \in FetchOne(req[r].name, req[r].email) :
       LET validation ==
             validate_claim(req[r].name, req[r].email, sql_conn, queryOk, row)
           res == IF ~sql_conn THEN "unbound"
                  ELSE IF ~queryOk THEN "error" ELSE "ok"
       IN  /\ ~queryOk => sql_conn /\ faults < MaxFaults
           /\ faults' = IF queryOk THEN faults ELSE faults + 1
           /\ IF validation = Raised
              THEN /\ Fail500(r, "policy_lookup", res)
                   /\ UNCHANGED next_uuid
              ELSE IF policy_rejected(validation)
              THEN /\ req' = [req EXCEPT ![r] =
                       [@ EXCEPT !.pc = "Done", !.validation = validation,
                                 !.response = InvalidPolicyResponse,
                                 !.trace = Event(r, "policy_lookup", res)]]
                   /\ UNCHANGED next_uuid
              ELSE /\ req' = [req EXCEPT ![r] =
                       [@ EXCEPT !.pc = "Uploading", !.validation = validation,
                                 !.claim_id = next_uuid, !.document_details = <<>>,
                                 !.i = 1,
                                 !.trace = Event(r, "policy_lookup", res)]]
                   /\ next_uuid' = next_uuid + 1
  /\ UNCHANGED <<stores, config>>

\* the stream of a submitted file part: what upload_blob stores
Content(r, file) == [req |-> r, field |-> file.field, part |-> file.part]

\* what a GET of the signed URL serves
Served(url) == IF url.blob \in DOMAIN blobs THEN blobs[url.blob] ELSE NoContent

\* variant: the URL names the container and no blob
signed_url_NoBlobName(filename) == [blob |-> <<>>, sas |-> "r"]

\* lines 116-124: the blob URL of filename with a read-only SAS token
signed_url(filename) == [blob |-> filename, sas |-> "r"]

\* variant: a blob client is made for any name
blob_name_rejected_Never(filename) == FALSE

\* line 113: get_blob_client raises ValueError for an empty blob name
blob_name_rejected(filename) == filename = <<>>

\* lines 111-124: the next file is uploaded and its signed URL computed.
\* get_blob_client raises ValueError for an empty blob name.
Upload(r) ==
  /\ req[r].pc = "Uploading"
  /\ LET file == req[r].files[req[r].i]
     IN  \E filename \in {Sanitized[file.filename]} :
         \E url \in {signed_url(filename)} :
         \E ok \in BOOLEAN :
           LET op == IF blob_name_rejected(filename) THEN "get_blob_client" ELSE "upload_blob"
           IN  /\ blob_name_rejected(filename) => ~ok
               /\ (~ok /\ ~blob_name_rejected(filename)) => faults < MaxFaults
               /\ faults' = IF ok \/ blob_name_rejected(filename) THEN faults ELSE faults + 1
               /\ blobs' = IF ok THEN Put(blobs, filename, Content(r, file))
                           ELSE blobs
               /\ IF ok \/ caught(op)
                  THEN req' = [req EXCEPT ![r] =
                         [@ EXCEPT !.pc = "Captioning", !.filename = filename,
                                   !.blob_url_with_sas = url,
                                   !.trace = Event(r, op, IF ok THEN "ok" ELSE "fail")]]
                  ELSE Fail500(r, op, "fail")
  /\ UNCHANGED <<Documents, cosmos, posted, config, next_uuid>>

\* ---- the enrichment services
\* Both services fetch the signed URL, so what they return is decided by the
\* blob the URL serves when they are called.  A car photo is an image the
\* vision service can describe and holds no form fields; a supporting
\* document holds form fields and gets no caption.

\* vision_result.captions for the served blob: <<>> or one caption
Captions(served) ==
  IF served.field = "carPhotos"
  THEN << [text |-> "caption", of |-> served] >>
  ELSE <<>>

\* A key or value element of a pair is <<>> (None) or <<content>>.
\* result.key_value_pairs for the served blob
KeyValuePairs(served) ==
  IF served.field = "supportingDocuments"
  THEN << [key |-> << <<" ", "k">> >>, value |-> << <<"v", " ">> >>],
          [key |-> << <<" ">> >>,      value |-> << <<"x">> >>],
          [key |-> <<>>,               value |-> <<>>] >>
  ELSE <<>>

\* variant: the except clause stores the error text in caption
caption_of_ErrorText(ok, captions) ==
  IF ~ok THEN [text |-> "Vision error: e", of |-> NoContent]
  ELSE IF captions # <<>> THEN captions[1] ELSE NoCaption

\* lines 126-132.  ok: describe_image does not raise
caption_of(ok, captions) ==
  IF ok /\ captions # <<>> THEN captions[1] ELSE NoCaption

Caption(r) ==
  /\ req[r].pc = "Captioning"
  /\ \E ok \in BOOLEAN :
       LET captions == Captions(Served(req[r].blob_url_with_sas))
           res == IF ~ok THEN "fail" ELSE IF captions = <<>> THEN "none" ELSE "text"
       IN  /\ ~ok => faults < MaxFaults
           /\ faults' = IF ok THEN faults ELSE faults + 1
           /\ IF ok \/ caught("describe_image")
              THEN req' = [req EXCEPT ![r] =
                     [@ EXCEPT !.pc = "Extracting",
                               !.caption = caption_of(ok, captions),
                               !.trace = Event(r, "describe_image", res)]]
              ELSE Fail500(r, "describe_image", res)
  /\ UNCHANGED <<stores, config, next_uuid>>

\* str.strip()
RECURSIVE LStripWs(_)
LStripWs(s) == IF s # <<>> /\ Head(s) = " " THEN LStripWs(Tail(s)) ELSE s

RECURSIVE RStripWs(_)
RStripWs(s) ==
  IF s # <<>> /\ s[Len(s)] = " " THEN RStripWs(SubSeq(s, 1, Len(s) - 1)) ELSE s

Strip(s) == RStripWs(LStripWs(s))

\* lines 139-140: e.content.strip() if e and e.content else ""
content_of(e) == IF e # <<>> /\ e[1] # <<>> THEN Strip(e[1]) ELSE <<>>

\* lines 138-142: the loop over result.key_value_pairs
RECURSIVE collect(_, _)
collect(pairs, form_data) ==
  IF pairs = <<>> THEN form_data
  ELSE LET key == content_of(Head(pairs).key)
           value == content_of(Head(pairs).value)
       IN  collect(Tail(pairs),
                   IF key # <<>> THEN Put(form_data, key, value) ELSE form_data)

\* line 144
RecognizerError == ( <<"error">> :> <<"Recognizer error: ", "e">> )

\* variant: the except clause adds the error entry to the pairs collected so
\* far
form_data_of_KeepPartial(pairs, failed, done) ==
  IF failed
  THEN Put(collect(SubSeq(pairs, 1, done), <<>>), <<"error">>, <<"Recognizer error: ", "e">>)
  ELSE collect(pairs, <<>>)

\* lines 134-145.  failed: an exception is raised after `done` pairs of the
\* result were collected (0: by the call itself).
form_data_of(pairs, failed, done) ==
  IF failed THEN RecognizerError ELSE collect(pairs, <<>>)

Extract(r) ==
  /\ req[r].pc = "Extracting"
  /\ LET pairs == KeyValuePairs(Served(req[r].blob_url_with_sas))
     IN  \E failed \in BOOLEAN :
         \E done \in 0..Len(pairs) :
           LET res == IF ~failed THEN "ok"
                      ELSE IF done = 0 THEN "fail" ELSE "fail_partial"
           IN  /\ failed => faults < MaxFaults
               /\ failed => (done < Len(pairs) \/ done = 0)
               /\ ~failed => done = Len(pairs)
               /\ faults' = IF failed THEN faults + 1 ELSE faults
               /\ IF ~failed \/ caught("analyze_document")
                  THEN req' = [req EXCEPT ![r] =
                         [@ EXCEPT !.pc = "Auditing",
                                   !.form_data = form_data_of(pairs, failed, done),
                                   !.trace = Event(r, "analyze_document", res)]]
                  ELSE Fail500(r, "analyze_document", res)
  /\ UNCHANGED <<stores, config, next_uuid>>

\* variant: after the last file the handler goes straight to the upsert
after_file_SkipSummary(i, n) == IF i = n THEN "Persisting" ELSE "Uploading"

\* lines 111 and 164: after file i of n the loop takes the next file, or
\* ends and the summary is made
after_file(i, n) == IF i = n THEN "Summarizing" ELSE "Uploading"

\* lines 147-162: the audit insert, then the file's entry is appended; the
\* loop goes on with the next file or ends.
AuditInsert(r) ==
  /\ req[r].pc = "Auditing"
  /\ \E ok \in BOOLEAN :
       LET inserted == sql_conn /\ ok
           row == [ClaimID |-> req[r].claim_id, DocumentType |-> "Photo",
                   FileName |-> req[r].filename,
                   FileUrl |-> req[r].blob_url_with_sas]
           entry == [file |-> req[r].filename, caption |-> req[r].caption,
                     formData |-> req[r].form_data,
                     blobUrl |-> req[r].blob_url_with_sas]
           last == req[r].i = Len(req[r].files)
           res == IF inserted THEN "ok" ELSE "fail"
       IN  /\ ~ok => sql_conn /\ faults < MaxFaults
           /\ faults' = IF ok THEN faults ELSE faults + 1
           /\ Documents' = IF inserted THEN Append(Documents, row) ELSE Documents
           /\ IF inserted \/ caught("insert_document")
              THEN req' = [req EXCEPT ![r] =
                     [@ EXCEPT !.pc = after_file(req[r].i, Len(req[r].files)),
                               !.i = IF last THEN @ ELSE @ + 1,
                               !.document_details = Append(@, entry),
                               !.trace = Event(r, "insert_document", res)]]
              ELSE Fail500(r, "insert_document", res)
  /\ UNCHANGED <<blobs, cosmos, posted, config, next_uuid>>

\* line 165
SummaryPlaceholder ==
  [text |-> "Summary not available due to error.", of |-> ""]

\* variant: gpt_summary starts as the empty string
gpt_summary_of_NoPlaceholder(ok, description) ==
  IF ok THEN [text |-> "summary", of |-> description] ELSE NoSummary

\* lines 165-183.  ok: the chat completion returns a message with content
gpt_summary_of(ok, description) ==
  IF ok THEN [text |-> "summary", of |-> description] ELSE SummaryPlaceholder

\* lines 185-197
claim_data_of(q, gpt_summary) ==
  [id |-> q.claim_id, name |-> q.name, email |-> q.email,
   customerId |-> q.validation.customerId, policyId |-> q.validation.policyId,
   description |-> q.description, gptSummary |-> gpt_summary,
   documents |-> q.document_details, status |-> "Submitted"]

\* lines 164-197: the summarizer call, then the claim item is built
Summarize(r) ==
  /\ req[r].pc = "Summarizing"
  /\ \E ok \in BOOLEAN :
       LET gpt_summary == gpt_summary_of(ok, req[r].description)
           res == IF ok THEN "ok" ELSE "fail"
       IN  /\ ~ok => faults < MaxFaults
           /\ faults' = IF ok THEN faults ELSE faults + 1
           /\ IF ok \/ caught("summarize")
              THEN req' = [req EXCEPT ![r] =
                     [@ EXCEPT !.pc = "Persisting", !.gpt_summary = gpt_summary,
                               !.claim_data = claim_data_of(req[r], gpt_summary),
                               !.trace = Event(r, "summarize", res)]]
              ELSE Fail500(r, "summarize", res)
  /\ UNCHANGED <<stores, config, next_uuid>>

\* lines 199-200: the upsert
Persist(r) ==
  /\ req[r].pc = "Persisting"
  /\ \E ok \in BOOLEAN :
       /\ ~ok => faults < MaxFaults
       /\ faults' = IF ok THEN faults ELSE faults + 1
       /\ cosmos' = IF ok THEN Put(cosmos, req[r].claim_data.id, req[r].claim_data)
                    ELSE cosmos
       /\ IF ok \/ caught("upsert_item")
          THEN req' = [req EXCEPT ![r] =
                 [@ EXCEPT !.pc = "Notifying",
                           !.trace = Event(r, "upsert_item",
                                           IF ok THEN "ok" ELSE "fail")]]
          ELSE Fail500(r, "upsert_item", "fail")
  /\ UNCHANGED <<blobs, Documents, posted, config, next_uuid>>

\* line 47: the secret LOGIC-APP-WEBHOOK-URL, set in the vault
LOGIC_APP_WEBHOOK_URL == "https://logic.example/hook"

\* variant: the webhook body leaves the documents out
webhook_json_NoDocuments(q) == [q.claim_data EXCEPT !.documents = <<>>]

\* line 204: json=claim_data, the body of the webhook call
webhook_json(q) == q.claim_data

\* lines 202-208: the webhook call, if a URL is configured, then the success
\* page
Notify(r) ==
  /\ req[r].pc = "Notifying"
  /\ \E res \in {"ok", "fail", "skip"} :
       /\ res = "skip" <=> LOGIC_APP_WEBHOOK_URL = ""
       /\ res = "fail" => faults < MaxFaults
       /\ faults' = IF res = "fail" THEN faults + 1 ELSE faults
       /\ posted' = IF res = "ok" THEN Append(posted, webhook_json(req[r])) ELSE posted
       /\ IF res # "fail" \/ caught("webhook_post")
          THEN req' = [req EXCEPT ![r] =
                 [@ EXCEPT !.pc = "Done",
                           !.response = SuccessResponse(req[r].claim_id),
                           !.trace = IF res = "skip" THEN @
                                     ELSE Event(r, "webhook_post", res)]]
          ELSE Fail500(r, "webhook_post", res)
  /\ UNCHANGED <<blobs, Documents, cosmos, config, next_uuid>>

Next ==
  \E r \in Requests :
    \/ Receive(r)
    \/ CheckFiles(r)
    \/ Validate(r)
    \/ Upload(r)
    \/ Caption(r)
    \/ Extract(r)
    \/ AuditInsert(r)
    \/ Summarize(r)
    \/ Persist(r)
    \/ Notify(r)

Spec == Init /\ [][Next]_vars

\* ---- a request thread keeps running
\* the steps of the handler for request r, once it has arrived
Handler(r) ==
  \/ CheckFiles(r)
  \/ Validate(r)
  \/ Upload(r)
  \/ Caption(r)
  \/ Extract(r)
  \/ AuditInsert(r)
  \/ Summarize(r)
  \/ Persist(r)
  \/ Notify(r)

\* The server runs the handler of a request it received to its return
\* statement, and every external call returns or raises: a handler step that
\* stays possible is taken.  Nothing makes a client send a request.
SpecLive == Spec /\ \A r \in Requests : WF_vars(Handler(r))

\* ---- two requests served at the same time
\* The files two clients submit at the same time: one file part each.
ConcurrentFiles ==
  { files_of(p[1], p[2]) :
      p \in { q \in SeqsUpTo({<<"b">>, <<".", ".", "/", "a">>}, 1)
                     \X SeqsUpTo({<<"b">>, <<".", ".", "/", "a">>}, 1) :
                Len(q[1]) + Len(q[2]) = 1 } }

\* Both requests have arrived (lines 92-97), each from a claimant with an
\* active policy and with one file; the external services are up: no call
\* fails.
InitConc ==
  /\ \E f1 \in ConcurrentFiles, f2 \in ConcurrentFiles :
       req = [r \in Requests |->
                [IdleRequest EXCEPT !.pc = "Received", !.name = "JANE DOE",
                                    !.email = "Jane@X.com",
                                    !.description = Description,
                                    !.files = IF r = 1 THEN f1 ELSE f2]]
  /\ blobs = <<>>
  /\ Documents = <<>>
  /\ cosmos = <<>>
  /\ posted = <<>>
  /\ sql_conn = TRUE
  /\ clients = Requests
  /\ next_uuid = 1
  /\ faults = MaxFaults

\* the steps of the two request threads, in any interleaving
NextConc ==
  \E r \in Requests :
    \/ CheckFiles(r)
    \/ Validate(r)
    \/ Upload(r)
    \/ Caption(r)
    \/ Extract(r)
    \/ AuditInsert(r)
    \/ Summarize(r)
    \/ Persist(r)
    \/ Notify(r)

SpecConc == InitConc /\ [][NextConc]_vars

\* ============================================================ properties
\* the positions in r's record of the calls of one kind
Events(r, op) == { k \in DOMAIN req[r].trace : req[r].trace[k].op = op }

\* the outcomes that stand for a call raising an exception
FailRes == {"fail", "fail_partial", "error", "unbound"}

\* a call of this kind by r raised an exception
Failed(r, op) == \E k \in Events(r, op) : req[r].trace[k].res \in FailRes

\* a call of this kind by r returned normally
Succeeded(r, op) == \E k \in Events(r, op) : req[r].trace[k].res \notin FailRes

\* nothing in the stores comes from r
NoStoreWrites(r) ==
  /\ \A k \in DOMAIN blobs : blobs[k].req # r
  /\ \A j \in DOMAIN Documents : Documents[j].ClaimID # req[r].claim_id
  /\ req[r].claim_id \notin DOMAIN cosmos
  /\ \A j \in DOMAIN posted : posted[j].id # req[r].claim_id

\* the policy validation of r has returned
Validated(r) == Events(r, "policy_lookup") # {} /\ req[r].validation # Raised

\* C1: a request whose policy validation returned invalid ends with the 400
\* "invalid policy" rejection, and the policy lookup is the only external
\* call it ever issues: no upload, caption, field extraction, audit insert,
\* summarizer call, upsert or webhook call.
C1_InvalidPolicyRejected ==
  \A r \in Requests :
    (Validated(r) /\ ~req[r].validation.isValid) =>
      /\ req[r].pc = "Done"
      /\ req[r].response = InvalidPolicyResponse
      /\ \A k \in DOMAIN req[r].trace : req[r].trace[k].op = "policy_lookup"
      /\ NoStoreWrites(r)

\* a claimant whose policy has lapsed submitted two files and was rejected
C1_Witness ==
  \E r \in Requests :
    /\ req[r].response = InvalidPolicyResponse
    /\ req[r].name = "Bob Roe"
    /\ Len(req[r].files) = 2
    /\ req[r].files[1].filename = <<"b">>

\* C2: a request whose file list is empty, or holds only entries with an
\* empty file name, ends with the 400 "No files uploaded." rejection and
\* issues no external call at all (no policy lookup, upload, audit insert,
\* upsert or webhook call).
C2_NoFilesRejected ==
  \A r \in Requests :
    ( /\ req[r].pc \notin {"Idle", "Received"}
      /\ \A k \in 1..Len(req[r].files) : req[r].files[k].filename = <<>> ) =>
      /\ req[r].pc = "Done"
      /\ req[r].response = NoFilesResponse
      /\ req[r].trace = <<>>
      /\ NoStoreWrites(r)

\* two file entries, both with an empty name, were rejected
C2_Witness ==
  \E r \in Requests :
    /\ req[r].response = NoFilesResponse
    /\ Len(req[r].files) = 2
    /\ req[r].name = "JANE DOE"

\* the file list is carPhotos followed by supportingDocuments, each in order
SubmissionOrder(files) ==
  \A j, k \in 1..Len(files) :
    j < k =>
      /\ files[j].field = "supportingDocuments" => files[k].field = "supportingDocuments"
      /\ files[j].field = files[k].field => files[j].part < files[k].part

\* C3: in a persisted claim item the documents list has one entry per
\* submitted file, and the k-th entry is that of the k-th file in submission
\* order (carPhotos, then supportingDocuments): it carries that file's
\* sanitized name, the URL of that name, and a caption that, if there is
\* one, describes that file's content -- whichever of the caption, field
\* extraction and audit insert calls failed.
C3_OneResultPerFile ==
  \A r \in Requests :
    req[r].claim_id \in DOMAIN cosmos =>
      LET documents == cosmos[req[r].claim_id].documents
          files == req[r].files
      IN  /\ Len(documents) = Len(files)
          /\ SubmissionOrder(files)
          /\ \A k \in 1..Len(documents) :
               /\ k <= Len(files)
               /\ documents[k].file = secure_filename(files[k].filename)
               /\ documents[k].blobUrl.blob = documents[k].file
               /\ documents[k].caption \in {NoCaption, [text |-> "caption", of |-> Content(r, files[k])]}

\* a photo and a document were persisted although a caption call, a field
\* extraction and an audit insert failed
C3_Witness ==
  \E r \in Requests :
    /\ req[r].claim_id \in DOMAIN cosmos
    /\ Len(cosmos[req[r].claim_id].documents) = 2
    /\ req[r].files[1].field = "carPhotos"
    /\ req[r].files[2].field = "supportingDocuments"
    /\ Failed(r, "describe_image")
    /\ Failed(r, "analyze_document")
    /\ Failed(r, "insert_document")

\* every upload of r went through, and so did its upsert if it got there
NoFatalFault(r) ==
  /\ ~Failed(r, "get_blob_client")
  /\ ~Failed(r, "upload_blob")
  /\ ~Failed(r, "upsert_item")

\* C4: when a validated request has ended and none of its uploads and not
\* its upsert failed, then every file was uploaded, the claim item is
\* persisted with one entry per file and the response is the success
\* response -- whichever caption, field extraction and audit insert calls
\* failed on the way; and a request never ends on a failed caption, field
\* extraction or audit insert call.
C4_EnrichmentFailuresTolerated ==
  \A r \in Requests :
    /\ ( /\ req[r].pc = "Done"
         /\ Validated(r) /\ req[r].validation.isValid
         /\ NoFatalFault(r) ) =>
         /\ req[r].response = SuccessResponse(req[r].claim_id)
         /\ Cardinality(Events(r, "upload_blob")) = Len(req[r].files)
         /\ req[r].claim_id \in DOMAIN cosmos
         /\ Len(cosmos[req[r].claim_id].documents) = Len(req[r].files)
    /\ \A k \in DOMAIN req[r].trace :
         ( /\ req[r].trace[k].op \in {"describe_image", "analyze_document", "insert_document"}
           /\ req[r].trace[k].res \in FailRes
           /\ k = Len(req[r].trace) ) => req[r].pc # "Done"

\* all three calls failed for the first of two files, and the request
\* succeeded
C4_Witness ==
  \E r \in Requests :
    /\ req[r].pc = "Done"
    /\ req[r].response.status = 200
    /\ Len(req[r].files) = 2
    /\ \A op \in {"describe_image", "analyze_document", "insert_document"} :
         \E k \in Events(r, op) :
           req[r].trace[k].i = 1 /\ req[r].trace[k].res \in FailRes

\* the outcome of the caption call for the j-th file of r
CaptionRes(r, j) ==
  LET ks == { k \in Events(r, "describe_image") : req[r].trace[k].i = j }
  IN  IF ks = {} THEN "" ELSE req[r].trace[CHOOSE k \in ks : TRUE].res

C6_UploadFailureIsFatal ==
  \A r \in Requests :
    \A k \in Events(r, "upload_blob") \cup Events(r, "get_blob_client") :
      req[r].trace[k].res = "fail" =>
        /\ req[r].pc = "Done"
        /\ req[r].response = ServerErrorResponse
        /\ k = Len(req[r].trace)
        /\ req[r].claim_id \notin DOMAIN cosmos
        /\ \A j \in DOMAIN posted : posted[j].id # req[r].claim_id

\* the upload of the first of two files failed
C6_Witness ==
  \E r \in Requests :
    /\ Len(req[r].files) = 2
    /\ \E k \in Events(r, "upload_blob") :
         req[r].trace[k].i = 1 /\ req[r].trace[k].res = "fail"

\* r passed the no-files check and the policy validation
Accepted(r) == Validated(r) /\ req[r].validation.isValid

\* the claim items in the document store that belong to r
Records(r) == { id \in DOMAIN cosmos : id = req[r].claim_id }

\* C7 as stated: every finished request that passed the no-files check and
\* the policy validation has exactly one claim item in the document store;
\* no request issues more than one upsert; a request that failed validation
\* has no claim item.
C7_ExactlyOneRecordPerAccepted ==
  \A r \in Requests :
    /\ (req[r].pc = "Done" /\ Accepted(r)) => Cardinality(Records(r)) = 1
    /\ Cardinality(Events(r, "upsert_item")) <= 1
    /\ ~Accepted(r) => Records(r) = {}

\* C7, amended: an accepted request has at most one claim item, exactly one
\* (the item it built) when it returns the success response and none when
\* it returns another response; no request issues more than one upsert;
\* every item of the store is the item of exactly one request; a request
\* that failed validation issues no upsert and has no item.
C7_AtMostOneRecordPerAccepted ==
  /\ \A r \in Requests :
       /\ Cardinality(Records(r)) <= 1
       /\ Cardinality(Events(r, "upsert_item")) <= 1
       /\ Records(r) # {} <=> Succeeded(r, "upsert_item")
       /\ (req[r].pc = "Done" /\ req[r].response.status = 200) =>
            /\ Records(r) = {req[r].response.claim_id}
            /\ cosmos[req[r].claim_id] = req[r].claim_data
       /\ (req[r].pc = "Done" /\ req[r].response.status # 200) => Records(r) = {}
       /\ ~Accepted(r) => Records(r) = {} /\ Events(r, "upsert_item") = {}
  /\ \A id \in DOMAIN cosmos :
       Cardinality({ r \in Requests : req[r].claim_id = id }) = 1

\* an accepted request with two files has returned success and the store
\* holds its one item
C7_Witness ==
  \E r \in Requests :
    /\ req[r].pc = "Done"
    /\ Accepted(r)
    /\ req[r].response.status = 200
    /\ Len(req[r].files) = 2
    /\ DOMAIN cosmos = {req[r].claim_id}

\* C8: once the webhook call of a request has failed, the request is over
\* with the success response carrying the id of its claim item, and that
\* item is in the document store exactly as it was built before the upsert.
C8_WebhookFailureHarmless ==
  \A r \in Requests :
    Failed(r, "webhook_post") =>
      /\ Succeeded(r, "upsert_item")
      /\ req[r].pc = "Done"
      /\ req[r].response = SuccessResponse(req[r].claim_id)
      /\ req[r].claim_id \in DOMAIN cosmos
      /\ cosmos[req[r].claim_id] = req[r].claim_data
      /\ cosmos[req[r].claim_id].id = req[r].response.claim_id

\* the webhook call failed and the response is the success response
C8_Witness ==
  \E r \in Requests :
    /\ Failed(r, "webhook_post")
    /\ req[r].response.status = 200
    /\ req[r].claim_id \in DOMAIN cosmos

\* C9 as stated: a request whose summarizer call failed builds its claim
\* item with the placeholder summary, the item is upserted and the request
\* returns success; the summarizer is called at most once per request.
C9_SummarizerFailureStillSucceeds ==
  \A r \in Requests :
    /\ Cardinality(Events(r, "summarize")) <= 1
    /\ Failed(r, "summarize") =>
         /\ req[r].claim_data.gptSummary = SummaryPlaceholder
         /\ req[r].pc = "Done" =>
              /\ req[r].claim_id \in DOMAIN cosmos
              /\ req[r].response.status = 200

\* C9, amended: a request whose summarizer call failed builds its claim item
\* with the placeholder summary and goes on to the upsert; unless the upsert
\* itself fails, the item in the store carries the placeholder and the
\* request returns success; the summarizer is called at most once per
\* request.
C9_SummarizerFailureYieldsPlaceholder ==
  \A r \in Requests :
    /\ Cardinality(Events(r, "summarize")) <= 1
    /\ Failed(r, "summarize") =>
         /\ req[r].claim_data.gptSummary = SummaryPlaceholder
         /\ req[r].gpt_summary = SummaryPlaceholder
         /\ req[r].pc \in {"Persisting", "Notifying", "Done"}
         /\ req[r].pc # "Persisting" => Events(r, "upsert_item") # {}
         /\ (req[r].pc = "Done" /\ ~Failed(r, "upsert_item")) =>
              /\ req[r].claim_id \in DOMAIN cosmos
              /\ cosmos[req[r].claim_id].gptSummary = SummaryPlaceholder
              /\ req[r].response = SuccessResponse(req[r].claim_id)

\* the summarizer failed, and the item with the placeholder is stored and
\* acknowledged
C9_Witness ==
  \E r \in Requests :
    /\ Failed(r, "summarize")
    /\ req[r].pc = "Done"
    /\ req[r].response.status = 200
    /\ req[r].claim_id \in DOMAIN cosmos
    /\ cosmos[req[r].claim_id].gptSummary = SummaryPlaceholder

\* C10: a policy lookup that raises (a query error, or sql_conn never bound)
\* gives the same validation result as a lookup that finds no active
\* policy, and the request ends with the same 400 "invalid policy"
\* rejection, never with the 500 response.
C10_LookupFaultIsInvalid ==
  \A r \in Requests :
    /\ Failed(r, "policy_lookup") =>
         /\ req[r].validation = Invalid
         /\ req[r].pc = "Done"
         /\ req[r].response = InvalidPolicyResponse
         /\ Len(req[r].trace) = 1
    /\ ( /\ Succeeded(r, "policy_lookup")
         /\ PolicyQuery(req[r].name, req[r].email) = {} ) =>
         /\ req[r].validation = Invalid
         /\ req[r].response = InvalidPolicyResponse

\* the lookup for a claimant with an active policy raised a query error and
\* the request was rejected as "invalid policy"
C10_Witness ==
  \E r \in Requests :
    /\ \E k \in Events(r, "policy_lookup") : req[r].trace[k].res = "error"
    /\ PolicyQuery(req[r].name, req[r].email) # {}
    /\ req[r].response = InvalidPolicyResponse

\* C11: the storage key of an upload is the sanitized name of the file, also
\* when another claim already stored a blob under that key: the upload
\* replaces that blob by the uploader's content and leaves the other blobs
\* alone.  (That a persisted claim item then references, and was captioned
\* from, the content of another claim is the state C11_Witness.)
C11_LaterUploadOverwrites ==
  [][ \A r \in Requests :
        (req[r].pc = "Uploading" /\ req'[r].pc = "Captioning") =>
          LET file == req[r].files[req[r].i]
              key == secure_filename(file.filename)
          IN  /\ req'[r].filename = key
              /\ req'[r].blob_url_with_sas.blob = key
              /\ DOMAIN blobs' = DOMAIN blobs \cup {key}
              /\ blobs'[key] = Content(r, file)
              /\ \A x \in DOMAIN blobs \ {key} : blobs'[x] = blobs[x] ]_vars

\* a persisted claim item whose document entry references a key that holds
\* the content uploaded by the other claim, and whose caption describes that
\* other content
C11_Witness ==
  \E r \in Requests :
    /\ req[r].claim_id \in DOMAIN cosmos
    /\ LET d == cosmos[req[r].claim_id].documents[1]
       IN  /\ d.blobUrl.blob \in DOMAIN blobs
           /\ blobs[d.blobUrl.blob].req \notin {0, r}
           /\ d.caption.text = "caption"
           /\ d.caption.of.req \notin {0, r}

\* C12: when a request has ended and no claim item was persisted for it
\* (the upsert failed, or a later upload failed), no audit row carries the
\* claim id of that request.
C12_NoOrphanAuditRows ==
  \A r \in Requests :
    (req[r].pc = "Done" /\ req[r].claim_id \notin DOMAIN cosmos) =>
      \A j \in DOMAIN Documents : Documents[j].ClaimID # req[r].claim_id

\* C13: a request issues at most one webhook call, and only after its
\* upsert succeeded; the body of the call is the claim item that was
\* persisted; a request that was rejected (400) or failed (500) has issued no
\* webhook call.
C13_WebhookOnceAfterUpsert ==
  \A r \in Requests :
    /\ Cardinality(Events(r, "webhook_post")) <= 1
    /\ \A k \in Events(r, "webhook_post") :
         \E j \in Events(r, "upsert_item") : j < k /\ req[r].trace[j].res = "ok"
    /\ Cardinality({ j \in DOMAIN posted : posted[j].id = req[r].claim_id }) <= 1
    /\ \A j \in DOMAIN posted :
         posted[j].id = req[r].claim_id =>
           /\ Succeeded(r, "webhook_post")
           /\ posted[j].id \in DOMAIN cosmos
           /\ posted[j] = cosmos[posted[j].id]
    /\ (req[r].pc = "Done" /\ req[r].response.status # 200) =>
         /\ Events(r, "webhook_post") = {}
         /\ \A j \in DOMAIN posted : posted[j].id # req[r].claim_id

\* a request that succeeded after its one webhook call delivered the claim
\* item
C13_Witness ==
  \E r \in Requests :
    /\ req[r].pc = "Done"
    /\ req[r].response.status = 200
    /\ Succeeded(r, "upsert_item")
    /\ Succeeded(r, "webhook_post")
    /\ \E j \in DOMAIN posted : posted[j] = cosmos[req[r].claim_id]

\* the signed URL of the file r is working on
OwnUrl(r) == signed_url(secure_filename(req[r].files[req[r].i].filename))

\* C14: the caption call and the extraction call of a file come after the
\* upload of that file succeeded and its signed URL was computed; both are
\* given the signed URL of that file, which serves the content of that file;
\* a failed caption call is followed by the extraction call of the same
\* file.
C14_EnrichAfterUploadWithOwnUrl ==
  \A r \in Requests :
    /\ \A k \in Events(r, "describe_image") \cup Events(r, "analyze_document") :
         \E j \in Events(r, "upload_blob") :
           /\ j < k
           /\ req[r].trace[j].i = req[r].trace[k].i
           /\ req[r].trace[j].res = "ok"
    /\ req[r].pc \in {"Captioning", "Extracting"} =>
         /\ req[r].blob_url_with_sas = OwnUrl(r)
         /\ Served(req[r].blob_url_with_sas) = Content(r, req[r].files[req[r].i])
    /\ (req[r].pc \in {"Extracting", "Auditing"} /\ req[r].caption # NoCaption) =>
         req[r].caption.of = Content(r, req[r].files[req[r].i])
    /\ \A k \in Events(r, "describe_image") :
         req[r].trace[k].res = "fail" =>
           IF k = Len(req[r].trace)
           THEN req[r].pc = "Extracting" /\ req[r].i = req[r].trace[k].i
           ELSE /\ req[r].trace[k + 1].op = "analyze_document"
                /\ req[r].trace[k + 1].i = req[r].trace[k].i

\* the caption call of a supporting document failed, and the extraction call
\* of that document followed and collected its fields
C14_Witness ==
  \E r \in Requests :
    \E k \in Events(r, "describe_image") :
      /\ req[r].trace[k].res = "fail"
      /\ k < Len(req[r].trace)
      /\ req[r].trace[k + 1] = [op |-> "analyze_document", i |-> req[r].trace[k].i,
                                res |-> "ok"]
      /\ req[r].pc = "Auditing"
      /\ req[r].form_data # <<>>

\* the outcome of the extraction call for file j of r ("": not called)
ExtractRes(r, j) ==
  LET ks == { k \in Events(r, "analyze_document") : req[r].trace[k].i = j }
  IN  IF ks = {} THEN "" ELSE req[r].trace[CHOOSE k \in ks : TRUE].res

\* the mapping recorded for a file obeys the extraction outcome
FormDataObeys(res, formData) ==
  /\ res \in {"fail", "fail_partial"} =>
       /\ DOMAIN formData = {<<"error">>}
       /\ formData = RecognizerError
  /\ res = "ok" =>
       /\ <<>> \notin DOMAIN formData
       /\ \A key \in DOMAIN formData : Strip(key) = key /\ Strip(formData[key]) = formData[key]

\* C15: when the extraction of a file failed, by the call itself or after
\* some key-value pairs were collected, the mapping recorded for the file is
\* exactly the single-entry error marker, with none of the collected pairs;
\* when it succeeded, the mapping has no empty key.  This holds for the
\* mapping of the file being processed, for the entries of the request and
\* for the entries of the persisted claim item.
C15_ExtractionFailureRecordsOnlyMarker ==
  \A r \in Requests :
    /\ req[r].pc = "Auditing" => FormDataObeys(ExtractRes(r, req[r].i), req[r].form_data)
    /\ \A j \in DOMAIN req[r].document_details :
         FormDataObeys(ExtractRes(r, j), req[r].document_details[j].formData)
    /\ req[r].claim_id \in DOMAIN cosmos =>
         \A j \in DOMAIN cosmos[req[r].claim_id].documents :
           FormDataObeys(ExtractRes(r, j), cosmos[req[r].claim_id].documents[j].formData)

\* a persisted claim item with a document whose extraction failed after some
\* pairs were collected, and a document whose extraction collected a pair and
\* dropped the pair with the blank key
C15_Witness ==
  \E r \in Requests :
    /\ req[r].claim_id \in DOMAIN cosmos
    /\ \E j, k \in DOMAIN cosmos[req[r].claim_id].documents :
         /\ ExtractRes(r, j) = "fail_partial"
         /\ cosmos[req[r].claim_id].documents[j].formData = RecognizerError
         /\ ExtractRes(r, k) = "ok"
         /\ cosmos[req[r].claim_id].documents[k].formData = ( <<"k">> :> <<"v">> )

\* the stages of a request: received, validating, the per-file loop,
\* summarizing, persisting, notifying, done
Stage(q) ==
  CASE q.pc = "Idle" -> 0
    [] q.pc = "Received" -> 1
    [] q.pc = "Validating" -> 2
    [] q.pc \in {"Uploading", "Captioning", "Extracting", "Auditing"} -> 3
    [] q.pc = "Summarizing" -> 4
    [] q.pc = "Persisting" -> 5
    [] q.pc = "Notifying" -> 6
    [] q.pc = "Done" -> 7

\* the steps of the per-file loop, in the order of one iteration
LoopStep(q) ==
  CASE q.pc = "Uploading" -> 1
    [] q.pc = "Captioning" -> 2
    [] q.pc = "Extracting" -> 3
    [] q.pc = "Auditing" -> 4
    [] OTHER -> 0

\* how far a request has come: the stage, then the file, then the step of the
\* iteration
Position(q) == 100 * Stage(q) + 10 * q.i + LoopStep(q)

\* the response of a request is set when it ends, and is one of the three
\* kinds
OneResponse(r) ==
  /\ req[r].pc = "Done" <=> req[r].response # NoResponse
  /\ req[r].pc = "Done" =>
       /\ req[r].response \in {NoFilesResponse, InvalidPolicyResponse, ServerErrorResponse,
                               SuccessResponse(req[r].claim_id)}
       /\ req[r].response.status \in {200, 400, 500}
       /\ req[r].response.status = 200 => Stage(req[r]) = 7 /\ Succeeded(r, "upsert_item")
  /\ Stage(req[r]) = 3 =>
       /\ req[r].i \in 1..Len(req[r].files)
       /\ Len(req[r].document_details) = req[r].i - 1
  /\ Stage(req[r]) \in 4..6 => Len(req[r].document_details) = Len(req[r].files)

\* a step of a request moves it forward: to the same stage (the next step of
\* the loop) or to the next stage or to the end, never back; a request that
\* has ended does not change
MovesForward(r) ==
  req'[r] # req[r] =>
    /\ req[r].pc # "Done"
    /\ Position(req'[r]) > Position(req[r])
    /\ Stage(req'[r]) \in {Stage(req[r]), Stage(req[r]) + 1, 7}

\* C16: when every started handler step is completed (every external call
\* returns or raises), every request that arrived ends, with exactly one
\* response, which is the success page, a 400 rejection or the 500 error;
\* until then it moves through the stages in their order only, and through
\* the files and the steps of the per-file loop in their order.
C16_TerminatesInOrder ==
  /\ [](\A r \in Requests : OneResponse(r))
  /\ [][\A r \in Requests : MovesForward(r)]_vars
  /\ \A r \in Requests : (req[r].pc # "Idle") ~> (req[r].pc = "Done")

\* a request that went through every stage, with two files, and ended with
\* the success page
C16_Witness ==
  \E r \in Requests :
    /\ req[r].pc = "Done"
    /\ req[r].response = SuccessResponse(req[r].claim_id)
    /\ Len(req[r].files) = 2
    /\ Len(req[r].document_details) = 2
    /\ Events(r, "summarize") # {}
    /\ Events(r, "upsert_item") # {}

\* the calls made for a file after a blob client was made for it
FileCalls == {"upload_blob", "describe_image", "analyze_document", "insert_document"}

C18_DistinctKeysWithinSubmission ==
  \A r \in Requests :
    req[r].claim_id \in DOMAIN cosmos =>
      LET documents == cosmos[req[r].claim_id].documents
      IN  /\ \A j, k \in DOMAIN documents :
               j # k => documents[j].blobUrl.blob # documents[k].blobUrl.blob
          /\ \A j \in DOMAIN documents :
               Served(documents[j].blobUrl) = Content(r, req[r].files[j])

====
